---- MODULE Spec2Model ----
(***************************************************************************)
(* Model of the blog backend's request handlers (routes/auth.js,           *)
(* routes/posts.js, the mongoose schemas and the auth middleware).         *)
(*                                                                         *)
(* The database is four collections.  A request is a little process: the   *)
(* auth middleware loads req.user, then the handler runs one awaited store *)
(* call per step.  A store call may throw; what happens then is decided by *)
(* the try/catch that encloses the call in the source (OnError).           *)
(***************************************************************************)
EXTENDS Integers, Sequences, FiniteSets, TLC

\* ---- bounds of the model ------------------------------------------------
MaxUsers == 2       \* user ids ever allocated (ids are never reused)
MaxPosts == 1       \* post ids ever allocated
MaxComments == 2    \* comment ids ever allocated
MaxNotifs == 2      \* notifications stored at one time
MaxUsersWide == 3   \* user ids, where a claim needs a third account
MaxPostsWide == 2   \* post ids, where a claim needs a second post

\* ---- input domains -------------------------------------------------------
Slots == {1, 2}
SeqSlots == {1}
Emails == {"e1", "e2"}
Passwords == {"pw1", "pw2"}
UserIds == 1..MaxUsers
PostIds == 1..MaxPosts
WideUserIds == 1..MaxUsersWide
WidePostIds == 1..MaxPostsWide

NoVal == <<>>
NoPost == 0

VARIABLES users, nextUid, tokens, posts, nextPid, comments, nextCid, notifs, rq

db == <<users, nextUid, tokens, posts, nextPid, comments, nextCid, notifs>>
vars == <<users, nextUid, tokens, posts, nextPid, comments, nextCid, notifs, rq>>

\* ---- helpers -------------------------------------------------------------
Remove(f, S) == [k \in DOMAIN f \ S |-> f[k]]

Range(q) == {q[i] : i \in 1..Len(q)}

RECURSIVE SetToSeq(_)
SetToSeq(S) ==
  IF S = {} THEN <<>>
  ELSE LET m == CHOOSE x \in S : \A y \in S : x <= y
       IN <<m>> \o SetToSeq(S \ {m})

\* ---- documents, as the schemas store them --------------------------------
\* userSchema: profilePicture and about default to '', subscribers to [].
NewUser(b) ==
  [email |-> b.email, password |-> b.password,
   firstName |-> b.firstName, lastName |-> b.lastName,
   profilePicture |-> "", about |-> "", subscribers |-> <<>>]

\* postSchema: the author reference, the author's name and picture, the likes.
NewPost(author, me) ==
  [author |-> author, firstName |-> me.firstName, lastName |-> me.lastName,
   profilePicture |-> me.profilePicture, likes |-> <<>>]

\* commentSchema
NewComment(post, author, me) ==
  [post |-> post, author |-> author, firstName |-> me.firstName,
   lastName |-> me.lastName, profilePicture |-> me.profilePicture]

\* notificationSchema: sender is an ObjectId reference.  The schema has no
\* path for a sender name or picture, so a sender given as an object
\* {_id, firstName, lastName, profilePicture} is cast to its _id and the
\* other fields are not stored.
NewNotification(recipient, sender, post, type) ==
  [recipient |-> recipient, sender |-> sender, post |-> post,
   type |-> type, read |-> FALSE]

\* ---- requests ------------------------------------------------------------
Idle == [op |-> "none", pc |-> "idle", status |-> 0, uid |-> 0,
         me |-> NoVal, arg |-> NoVal, loc |-> NoVal]

Free(s) == rq[s].pc \in {"idle", "done"}

\* the response is sent: the request's locals are gone, `body' is what the
\* caller gets (kept with the request's arguments until the slot is reused)
Finish(r, st, body) ==
  [op |-> r.op, pc |-> "done", status |-> st, uid |-> r.uid,
   me |-> NoVal, arg |-> r.arg, loc |-> body]

Goto(r, pc, loc) == [r EXCEPT !.pc = pc, !.loc = loc]

\* authMiddleware: the token is verified, the user is loaded by the id in
\* it and attached as req.user; 401 when the user does not exist.
AuthMiddleware(tok, op, arg, firstPc) ==
  IF tok \notin DOMAIN users
  THEN Finish([Idle EXCEPT !.op = op, !.uid = tok, !.arg = arg], 401, NoVal)
  ELSE [op |-> op, pc |-> firstPc, status |-> 0, uid |-> tok,
        me |-> [firstName |-> users[tok].firstName,
                lastName |-> users[tok].lastName,
                profilePicture |-> users[tok].profilePicture],
        arg |-> arg, loc |-> NoVal]

Init ==
  /\ users = <<>>
  /\ nextUid = 1
  /\ tokens = {}
  /\ posts = <<>>
  /\ nextPid = 1
  /\ comments = <<>>
  /\ nextCid = 1
  /\ notifs = <<>>
  /\ rq = [s \in Slots |-> Idle]

\* ---- POST /register -------------------------------------------------------
RegBodies ==
  {[email |-> "e1", password |-> "pw1", firstName |-> "Ann", lastName |-> "Lee"],
   [email |-> "e2", password |-> "pw1", firstName |-> "Bob", lastName |-> "Lee"]}

EmailExists(e) == \E u \in DOMAIN users : users[u].email = e

\* (maxUid bounds the ids the model allocates)
RegisterFindUpTo(s, b, maxUid) ==
  /\ Free(s)
  /\ nextUid <= maxUid
  /\ LET r == [Idle EXCEPT !.op = "register", !.arg = b]
     IN rq' = [rq EXCEPT ![s] =
                 IF EmailExists(b.email) THEN Finish(r, 400, NoVal)
                 ELSE Goto(r, "reg_save", NoVal)]
  /\ UNCHANGED db

RegisterFind(s, b) == RegisterFindUpTo(s, b, MaxUsers)

\* (mutant: the collection has no unique index on email)
RegisterSave_NoIndex(s) ==
  /\ rq[s].pc = "reg_save"
  /\ users' = (nextUid :> NewUser(rq[s].arg)) @@ users
  /\ nextUid' = nextUid + 1
  /\ rq' = [rq EXCEPT ![s] = Finish(rq[s], 201, NoVal)]
  /\ UNCHANGED <<tokens, posts, nextPid, comments, nextCid, notifs>>

\* user.save(): the unique index on email rejects a duplicate; the handler
\* has no try/catch, so the rejection is never answered (status 0).
RegisterSave(s) ==
  /\ rq[s].pc = "reg_save"
  /\ IF EmailExists(rq[s].arg.email)
     THEN /\ rq' = [rq EXCEPT ![s] = Finish(rq[s], 0, NoVal)]
          /\ UNCHANGED db
     ELSE /\ users' = (nextUid :> NewUser(rq[s].arg)) @@ users
          /\ nextUid' = nextUid + 1
          /\ rq' = [rq EXCEPT ![s] = Finish(rq[s], 201, NoVal)]
          /\ UNCHANGED <<tokens, posts, nextPid, comments, nextCid, notifs>>

\* ---- POST /login ----------------------------------------------------------
\* The token carries the user's id (and a name/picture snapshot that the
\* middleware never reads); issuing it is recorded in `tokens'.
Login(s, e, pw) ==
  /\ Free(s)
  /\ LET r == [Idle EXCEPT !.op = "login", !.arg = [email |-> e]]
         found == {u \in DOMAIN users : users[u].email = e}
     IN IF found = {}
        THEN /\ rq' = [rq EXCEPT ![s] = Finish(r, 400, NoVal)]
             /\ UNCHANGED tokens
        ELSE LET u == CHOOSE x \in found : TRUE
             IN IF users[u].password # pw
                THEN /\ rq' = [rq EXCEPT ![s] = Finish(r, 400, NoVal)]
                     /\ UNCHANGED tokens
                ELSE /\ rq' = [rq EXCEPT ![s] = Finish([r EXCEPT !.uid = u], 200, NoVal)]
                     /\ tokens' = tokens \cup {u}
  /\ UNCHANGED <<users, nextUid, posts, nextPid, comments, nextCid, notifs>>

\* ---- POST /posts ----------------------------------------------------------
\* (the optional image upload and the title/content are not modelled: no
\* other handler reads them)
CreatePostBeginUpTo(s, tok, maxPid) ==
  /\ Free(s)
  /\ tok \in tokens
  /\ nextPid <= maxPid
  /\ tok \in DOMAIN users => Len(notifs) + Len(users[tok].subscribers) <= MaxNotifs
  /\ rq' = [rq EXCEPT ![s] = AuthMiddleware(tok, "createPost", NoVal, "cp_save")]
  /\ UNCHANGED db

CreatePostBegin(s, tok) == CreatePostBeginUpTo(s, tok, MaxPosts)

CreatePostSave(s) ==
  /\ rq[s].pc = "cp_save"
  /\ posts' = (nextPid :> NewPost(rq[s].uid, rq[s].me)) @@ posts
  /\ nextPid' = nextPid + 1
  /\ rq' = [rq EXCEPT ![s] = Goto(rq[s], "cp_findUser", [post |-> nextPid])]
  /\ UNCHANGED <<users, nextUid, tokens, comments, nextCid, notifs>>

\* User.findById(req.user.id) inside the inner try: a missing user makes
\* currentUser.subscribers throw, which the inner catch swallows.
CreatePostFindUser(s) ==
  /\ rq[s].pc = "cp_findUser"
  /\ LET r == rq[s]
     IN rq' = [rq EXCEPT ![s] =
          IF r.uid \notin DOMAIN users \/ users[r.uid].subscribers = <<>>
          THEN Finish(r, 201, r.loc)
          ELSE Goto(r, "cp_insert",
                    [post |-> r.loc.post, subs |-> users[r.uid].subscribers])]
  /\ UNCHANGED db

\* (mutant: only the first subscriber gets a notification)
PostCreatedNotifications_FirstOnly(subs, sender, post) ==
  <<NewNotification(subs[1], sender, post, "post_created")>>

PostCreatedNotifications(subs, sender, post) ==
  [i \in 1..Len(subs) |-> NewNotification(subs[i], sender, post, "post_created")]

CreatePostInsert(s) ==
  /\ rq[s].pc = "cp_insert"
  /\ notifs' = notifs \o PostCreatedNotifications(rq[s].loc.subs, rq[s].uid, rq[s].loc.post)
  /\ rq' = [rq EXCEPT ![s] = Finish(rq[s], 201, [post |-> rq[s].loc.post])]
  /\ UNCHANGED <<users, nextUid, tokens, posts, nextPid, comments, nextCid>>

\* ---- PUT /posts/:id/like --------------------------------------------------
Without(q, x) == SelectSeq(q, LAMBDA y : y # x)

\* post.save() after the handler changed an array of the loaded document:
\* push() is sent as $push (appended to the stored array), an assigned
\* array is sent as $set (the stored array is overwritten).
SaveArray(stored, loc) ==
  IF loc.mode = "push" THEN Append(stored, loc.pushed) ELSE loc.value

\* Mongoose versioning: every save() that changes an array increments the
\* stored document's __v, and a save() that assigns an array is sent with the
\* __v the handler loaded and is rejected (VersionError) when the stored one
\* has moved on; a $push is sent without it.  In place of the number the
\* request keeps, in loc.stale, whether the stored version has moved since it
\* loaded the document: the save of one request marks the others that hold
\* the same document.
VersionMoved(rqs, s) ==
  [t \in DOMAIN rqs |->
     IF /\ t # s
        /\ rqs[t].op = rq[s].op
        /\ rqs[t].arg = rq[s].arg
        /\ rqs[t].pc \notin {"idle", "done"}
        /\ "stale" \in DOMAIN rqs[t].loc
     THEN [rqs[t] EXCEPT !.loc.stale = TRUE]
     ELSE rqs[t]]

VersionConflict(loc) == loc.mode = "set" /\ loc.stale

LikeWouldNotify(tok, pid) ==
  /\ tok \in DOMAIN users
  /\ pid \in DOMAIN posts
  /\ tok \notin Range(posts[pid].likes)
  /\ posts[pid].author # tok

LikeBegin(s, tok, pid) ==
  /\ Free(s)
  /\ tok \in tokens
  /\ LikeWouldNotify(tok, pid) => Len(notifs) < MaxNotifs
  /\ rq' = [rq EXCEPT ![s] = AuthMiddleware(tok, "toggleLike", [post |-> pid], "like_find")]
  /\ UNCHANGED db

\* (mutant: a like of one's own post is notified like any other)
LikeToggle_NotifyOwn(r, post) ==
  LET userLiked == r.uid \in Range(post.likes)
  IN IF userLiked
     THEN Goto(r, "like_save",
               [mode |-> "set", value |-> Without(post.likes, r.uid),
                pushed |-> r.uid, author |-> post.author, isLiked |-> FALSE, stale |-> FALSE])
     ELSE Goto(r, "like_notif",
               [mode |-> "push", value |-> Append(post.likes, r.uid),
                pushed |-> r.uid, author |-> post.author, isLiked |-> TRUE, stale |-> FALSE])

\* Post.findById, then the toggle on the loaded document
LikeToggle(r, post) ==
  LET isOwnPost == post.author = r.uid
      userLiked == r.uid \in Range(post.likes)
  IN IF userLiked
     THEN Goto(r, "like_save",
               [mode |-> "set", value |-> Without(post.likes, r.uid),
                pushed |-> r.uid, author |-> post.author, isLiked |-> FALSE, stale |-> FALSE])
     ELSE Goto(r, IF isOwnPost THEN "like_save" ELSE "like_notif",
               [mode |-> "push", value |-> Append(post.likes, r.uid),
                pushed |-> r.uid, author |-> post.author, isLiked |-> TRUE, stale |-> FALSE])

LikeFind(s) ==
  /\ rq[s].pc = "like_find"
  /\ LET r == rq[s]
     IN rq' = [rq EXCEPT ![s] =
          IF r.arg.post \notin DOMAIN posts THEN Finish(r, 404, NoVal)
          ELSE LikeToggle(r, posts[r.arg.post])]
  /\ UNCHANGED db

LikeNotif(s) ==
  /\ rq[s].pc = "like_notif"
  /\ notifs' = Append(notifs,
                 NewNotification(rq[s].loc.author, rq[s].uid, rq[s].arg.post, "like"))
  /\ rq' = [rq EXCEPT ![s].pc = "like_save"]
  /\ UNCHANGED <<users, nextUid, tokens, posts, nextPid, comments, nextCid>>

\* post.save(): a document deleted in the meantime makes save() throw (500)
LikeSave(s) ==
  /\ rq[s].pc = "like_save"
  /\ LET r == rq[s]
         pid == r.arg.post
     IN IF pid \notin DOMAIN posts
        THEN /\ rq' = [rq EXCEPT ![s] = Finish(r, 500, NoVal)]
             /\ UNCHANGED posts
        ELSE IF VersionConflict(r.loc)
        THEN /\ rq' = [rq EXCEPT ![s] = Finish(r, 500, [versionError |-> TRUE])]
             /\ UNCHANGED posts
        ELSE /\ posts' = [posts EXCEPT ![pid].likes = SaveArray(posts[pid].likes, r.loc)]
             /\ rq' = VersionMoved(
                         [rq EXCEPT ![s] =
                            Finish(r, 200, [likes |-> r.loc.value, isLiked |-> r.loc.isLiked])],
                         s)
  /\ UNCHANGED <<users, nextUid, tokens, nextPid, comments, nextCid, notifs>>

\* ---- POST /posts/:id/comments ---------------------------------------------
CommentWouldNotify(tok, pid) ==
  /\ tok \in DOMAIN users
  /\ pid \in DOMAIN posts
  /\ posts[pid].author # tok

CommentBegin(s, tok, pid) ==
  /\ Free(s)
  /\ tok \in tokens
  /\ nextCid <= MaxComments
  /\ CommentWouldNotify(tok, pid) => Len(notifs) < MaxNotifs
  /\ rq' = [rq EXCEPT ![s] = AuthMiddleware(tok, "addComment", [post |-> pid], "cm_find")]
  /\ UNCHANGED db

\* (mutant: a comment on one's own post is notified like any other)
CommentFind_NotifyOwn(s) ==
  /\ rq[s].pc = "cm_find"
  /\ LET r == rq[s]
     IN rq' = [rq EXCEPT ![s] =
          IF r.arg.post \notin DOMAIN posts THEN Finish(r, 404, NoVal)
          ELSE Goto(r, "cm_save",
                    [author |-> posts[r.arg.post].author, isOwnPost |-> FALSE])]
  /\ UNCHANGED db

CommentFind(s) ==
  /\ rq[s].pc = "cm_find"
  /\ LET r == rq[s]
     IN rq' = [rq EXCEPT ![s] =
          IF r.arg.post \notin DOMAIN posts THEN Finish(r, 404, NoVal)
          ELSE Goto(r, "cm_save",
                    [author |-> posts[r.arg.post].author,
                     isOwnPost |-> posts[r.arg.post].author = r.uid])]
  /\ UNCHANGED db

CommentSave(s) ==
  /\ rq[s].pc = "cm_save"
  /\ LET r == rq[s]
     IN /\ comments' = (nextCid :> NewComment(r.arg.post, r.uid, r.me)) @@ comments
        /\ nextCid' = nextCid + 1
        /\ rq' = [rq EXCEPT ![s] =
              IF r.loc.isOwnPost THEN Finish(r, 201, [comment |-> nextCid])
              ELSE Goto(r, "cm_notif", [author |-> r.loc.author, comment |-> nextCid])]
  /\ UNCHANGED <<users, nextUid, tokens, posts, nextPid, notifs>>

CommentNotif(s) ==
  /\ rq[s].pc = "cm_notif"
  /\ notifs' = Append(notifs,
                 NewNotification(rq[s].loc.author, rq[s].uid, rq[s].arg.post, "comment"))
  /\ rq' = [rq EXCEPT ![s] = Finish(rq[s], 201, [comment |-> rq[s].loc.comment])]
  /\ UNCHANGED <<users, nextUid, tokens, posts, nextPid, comments, nextCid>>

\* ---- PUT /subscribe/:userId -----------------------------------------------
SubscribeWouldNotify(tok, target) ==
  /\ tok \in DOMAIN users
  /\ target \in DOMAIN users
  /\ tok # target
  /\ tok \notin Range(users[target].subscribers)

SubscribeBegin(s, tok, target) ==
  /\ Free(s)
  /\ tok \in tokens
  /\ SubscribeWouldNotify(tok, target) => Len(notifs) < MaxNotifs
  /\ rq' = [rq EXCEPT ![s] =
              AuthMiddleware(tok, "toggleSubscription", [target |-> target], "sub_find")]
  /\ UNCHANGED db

\* (mutant: the handler pushes the caller whether subscribed or not)
SubscribeToggle_AlwaysPush(r, target) ==
  Goto(r, "sub_notif",
       [mode |-> "push", value |-> Append(target.subscribers, r.uid),
        pushed |-> r.uid, isSubscribed |-> TRUE, notified |-> FALSE, stale |-> FALSE])

SubscribeToggle(r, target) ==
  LET isSubscribed == r.uid \in Range(target.subscribers)
  IN IF isSubscribed
     THEN Goto(r, "sub_save",
               [mode |-> "set", value |-> Without(target.subscribers, r.uid),
                pushed |-> r.uid, isSubscribed |-> FALSE, notified |-> FALSE, stale |-> FALSE])
     ELSE Goto(r, "sub_notif",
               [mode |-> "push", value |-> Append(target.subscribers, r.uid),
                pushed |-> r.uid, isSubscribed |-> TRUE, notified |-> FALSE, stale |-> FALSE])

\* (mutant: the handler does not compare the target with the caller)
SubscribeFind_NoSelfCheck(s) ==
  /\ rq[s].pc = "sub_find"
  /\ LET r == rq[s]
     IN rq' = [rq EXCEPT ![s] =
          IF r.arg.target \notin DOMAIN users THEN Finish(r, 404, NoVal)
          ELSE SubscribeToggle(r, users[r.arg.target])]
  /\ UNCHANGED db

\* 404 for a missing target comes before the 400 for subscribing to oneself
SubscribeFind(s) ==
  /\ rq[s].pc = "sub_find"
  /\ LET r == rq[s]
     IN rq' = [rq EXCEPT ![s] =
          IF r.arg.target \notin DOMAIN users THEN Finish(r, 404, NoVal)
          ELSE IF r.uid = r.arg.target THEN Finish(r, 400, NoVal)
          ELSE SubscribeToggle(r, users[r.arg.target])]
  /\ UNCHANGED db

SubscribeNotif(s) ==
  /\ rq[s].pc = "sub_notif"
  /\ notifs' = Append(notifs,
                 NewNotification(rq[s].arg.target, rq[s].uid, NoPost, "subscribe"))
  /\ rq' = [rq EXCEPT ![s].pc = "sub_save", ![s].loc.notified = TRUE]
  /\ UNCHANGED <<users, nextUid, tokens, posts, nextPid, comments, nextCid>>

SubscribeSave(s) ==
  /\ rq[s].pc = "sub_save"
  /\ LET r == rq[s]
         t == r.arg.target
     IN IF t \notin DOMAIN users
        THEN /\ rq' = [rq EXCEPT ![s] = Finish(r, 500, NoVal)]
             /\ UNCHANGED users
        ELSE IF VersionConflict(r.loc)
        THEN /\ rq' = [rq EXCEPT ![s] = Finish(r, 500, [versionError |-> TRUE])]
             /\ UNCHANGED users
        ELSE /\ users' = [users EXCEPT ![t].subscribers =
                            SaveArray(users[t].subscribers, r.loc)]
             /\ rq' = VersionMoved(
                   [rq EXCEPT ![s] =
                      Finish(r, 200, [isSubscribed |-> r.loc.isSubscribed,
                                      subscriberCount |-> Len(r.loc.value)])],
                   s)
  /\ UNCHANGED <<nextUid, tokens, posts, nextPid, comments, nextCid, notifs>>

\* ---- DELETE /delete-account -----------------------------------------------
DeleteBegin(s, tok) ==
  /\ Free(s)
  /\ tok \in tokens
  /\ rq' = [rq EXCEPT ![s] = AuthMiddleware(tok, "deleteAccount", NoVal, "del_findPosts")]
  /\ UNCHANGED db

PostsOf(userId) == SetToSeq({p \in DOMAIN posts : posts[p].author = userId})

\* const userPosts = await Post.find({ author: userId })
\* (mutant: the handler goes to the deletion of the user at once)
DeleteFindPosts_UserFirst(s) ==
  /\ rq[s].pc = "del_findPosts"
  /\ LET found == PostsOf(rq[s].uid)
     IN rq' = [rq EXCEPT ![s] =
          Goto(rq[s], "del_user",
               [userPosts |-> found, todo |-> found, pulled |-> {}])]
  /\ UNCHANGED db

DeleteFindPosts(s) ==
  /\ rq[s].pc = "del_findPosts"
  /\ LET found == PostsOf(rq[s].uid)
     IN rq' = [rq EXCEPT ![s] =
          Goto(rq[s], IF found = <<>> THEN "del_posts" ELSE "del_postComments",
               [userPosts |-> found, todo |-> found])]
  /\ UNCHANGED db

\* (mutant: the loop over the user's posts deletes no comment)
CommentsNotOnPost_Skipped(cs, pid) == cs

\* one iteration of the loop: Comment.deleteMany({ post: post._id })
CommentsNotOnPost(cs, pid) ==
  Remove(cs, {c \in DOMAIN cs : cs[c].post = pid})

DeletePostComments(s) ==
  /\ rq[s].pc = "del_postComments"
  /\ LET r == rq[s]
         rest == Tail(r.loc.todo)
     IN /\ comments' = CommentsNotOnPost(comments, Head(r.loc.todo))
        /\ rq' = [rq EXCEPT ![s] =
              Goto(r, IF rest = <<>> THEN "del_posts" ELSE "del_postComments",
                   [r.loc EXCEPT !.todo = rest])]
  /\ UNCHANGED <<users, nextUid, tokens, posts, nextPid, nextCid, notifs>>

\* Post.deleteMany({ author: userId })
PostsNotBy(ps, userId) ==
  Remove(ps, {p \in DOMAIN ps : ps[p].author = userId})

DeletePosts(s) ==
  /\ rq[s].pc = "del_posts"
  /\ posts' = PostsNotBy(posts, rq[s].uid)
  /\ rq' = [rq EXCEPT ![s].pc = "del_comments"]
  /\ UNCHANGED <<users, nextUid, tokens, nextPid, comments, nextCid, notifs>>

\* Comment.deleteMany({ author: userId })
CommentsNotBy(cs, userId) ==
  Remove(cs, {c \in DOMAIN cs : cs[c].author = userId})

DeleteComments(s) ==
  /\ rq[s].pc = "del_comments"
  /\ comments' = CommentsNotBy(comments, rq[s].uid)
  /\ rq' = [rq EXCEPT ![s].pc = "del_notifs"]
  /\ UNCHANGED <<users, nextUid, tokens, posts, nextPid, nextCid, notifs>>

\* The filter { 'sender._id': userId }.  In the schema sender is an ObjectId,
\* not a subdocument: the store finds no field _id under it, so this clause
\* selects no document.
SenderIdClause(n, userId) == FALSE

\* { $or: [ { 'sender._id': userId }, { recipient: userId } ] }
NotificationFilter(n, userId) ==
  SenderIdClause(n, userId) \/ n.recipient = userId

NotifsNotMatching(ns, userId) ==
  SelectSeq(ns, LAMBDA n : ~NotificationFilter(n, userId))

DeleteNotifs(s) ==
  /\ rq[s].pc = "del_notifs"
  /\ notifs' = NotifsNotMatching(notifs, rq[s].uid)
  /\ rq' = [rq EXCEPT ![s].pc = "del_subs"]
  /\ UNCHANGED <<users, nextUid, tokens, posts, nextPid, comments, nextCid>>

\* User.updateMany({ subscribers: userId }, { $pull: { subscribers: userId } })
\* the users the filter { subscribers: userId } matches
SubscribedTo(us, userId) == {u \in DOMAIN us : userId \in Range(us[u].subscribers)}

\* (mutant: the $pull is left out)
PullSubscriber_Skipped(us, userId) == us

PullSubscriber(us, userId) ==
  [u \in DOMAIN us |->
     [us[u] EXCEPT !.subscribers = Without(us[u].subscribers, userId)]]

DeleteSubs(s) ==
  /\ rq[s].pc = "del_subs"
  /\ users' = PullSubscriber(users, rq[s].uid)
  /\ rq' = [rq EXCEPT ![s] =
              Goto(rq[s], "del_user",
                   [userPosts |-> rq[s].loc.userPosts, todo |-> rq[s].loc.todo,
                    pulled |-> SubscribedTo(users, rq[s].uid)])]
  /\ UNCHANGED <<nextUid, tokens, posts, nextPid, comments, nextCid, notifs>>

\* User.findByIdAndDelete(userId), then the 200 response
DeleteUser(s) ==
  /\ rq[s].pc = "del_user"
  /\ users' = Remove(users, {rq[s].uid})
  /\ rq' = [rq EXCEPT ![s] = Finish(rq[s], 200, [userPosts |-> rq[s].loc.userPosts,
                                             pulled |-> rq[s].loc.pulled])]
  /\ UNCHANGED <<nextUid, tokens, posts, nextPid, comments, nextCid, notifs>>

\* ---- PUT /update -----------------------------------------------------------
\* A request body: newPassword = "" and profilePicture = "" stand for the
\* field being absent (both are tested for truthiness).
UpdateBegin(s, tok, body) ==
  /\ Free(s)
  /\ tok \in tokens
  /\ rq' = [rq EXCEPT ![s] = AuthMiddleware(tok, "updateProfile", body, "upd_find")]
  /\ UNCHANGED db

ProfileFields == {"password", "firstName", "lastName", "about", "profilePicture"}

\* the assignments made to the loaded user document before user.save()
UpdatedDoc(user, body) ==
  [user EXCEPT
     !.password = IF body.newPassword # "" THEN body.newPassword ELSE @,
     !.firstName = body.firstName,
     !.lastName = body.lastName,
     !.about = body.about,
     !.profilePicture = IF body.profilePicture # "" THEN body.profilePicture ELSE @]

IsNameChanged(user, body) ==
  user.firstName # body.firstName \/ user.lastName # body.lastName

\* (mutant: the current password is not compared)
UpdateFind_NoPasswordCheck(s) ==
  /\ rq[s].pc = "upd_find"
  /\ LET r == rq[s]
         body == r.arg
     IN rq' = [rq EXCEPT ![s] =
          IF r.uid \notin DOMAIN users THEN Finish(r, 500, NoVal)
          ELSE LET user == users[r.uid]
               IN Goto(r, "upd_save",
                       [loaded |-> user, doc |-> UpdatedDoc(user, body),
                        isNameChanged |-> IsNameChanged(user, body)])]
  /\ UNCHANGED db

\* User.findById(req.user.id); a user deleted since the middleware ran gives
\* null, and reading null.password / null.firstName throws (500)
UpdateFind(s) ==
  /\ rq[s].pc = "upd_find"
  /\ LET r == rq[s]
         body == r.arg
     IN rq' = [rq EXCEPT ![s] =
          IF r.uid \notin DOMAIN users THEN Finish(r, 500, NoVal)
          ELSE LET user == users[r.uid]
               IN IF body.newPassword # "" /\ body.currentPassword # user.password
                  THEN Finish(r, 400, NoVal)
                  ELSE Goto(r, "upd_save",
                            [loaded |-> user, doc |-> UpdatedDoc(user, body),
                             isNameChanged |-> IsNameChanged(user, body)])]
  /\ UNCHANGED db

\* user.save() writes the paths whose value the handler changed
SaveUser(stored, loaded, doc) ==
  [f \in DOMAIN stored |->
     IF f \in ProfileFields /\ doc[f] # loaded[f] THEN doc[f] ELSE stored[f]]

UpdateResponse(r) ==
  [isNameChanged |-> r.loc.isNameChanged,
   oldPicture |-> r.loc.loaded.profilePicture]

UpdateSave(s) ==
  /\ rq[s].pc = "upd_save"
  /\ LET r == rq[s]
     IN IF r.uid \notin DOMAIN users
        THEN /\ rq' = [rq EXCEPT ![s] = Finish(r, 500, NoVal)]
             /\ UNCHANGED users
        ELSE /\ users' = [users EXCEPT ![r.uid] = SaveUser(@, r.loc.loaded, r.loc.doc)]
             /\ rq' = [rq EXCEPT ![s] =
                   IF r.loc.isNameChanged THEN Goto(r, "upd_posts", r.loc)
                   ELSE Finish(r, 200, UpdateResponse(r))]
  /\ UNCHANGED <<nextUid, tokens, posts, nextPid, comments, nextCid, notifs>>

\* the update document of both updateMany calls:
\* { firstName, lastName, profilePicture: profilePicture || user.profilePicture }
NameSnapshot(body, doc) ==
  [firstName |-> body.firstName, lastName |-> body.lastName,
   profilePicture |-> IF body.profilePicture # "" THEN body.profilePicture
                      ELSE doc.profilePicture]

\* Model.updateMany({ author: userId }, snap) on posts or comments
SetSnapshot(docs, userId, snap) ==
  [d \in DOMAIN docs |->
     IF docs[d].author = userId
     THEN [docs[d] EXCEPT !.firstName = snap.firstName,
                          !.lastName = snap.lastName,
                          !.profilePicture = snap.profilePicture]
     ELSE docs[d]]

UpdatePosts(s) ==
  /\ rq[s].pc = "upd_posts"
  /\ posts' = SetSnapshot(posts, rq[s].uid, NameSnapshot(rq[s].arg, rq[s].loc.doc))
  /\ rq' = [rq EXCEPT ![s].pc = "upd_comments"]
  /\ UNCHANGED <<users, nextUid, tokens, nextPid, comments, nextCid, notifs>>

UpdateComments(s) ==
  /\ rq[s].pc = "upd_comments"
  /\ comments' = SetSnapshot(comments, rq[s].uid, NameSnapshot(rq[s].arg, rq[s].loc.doc))
  /\ rq' = [rq EXCEPT ![s] = Finish(rq[s], 200, UpdateResponse(rq[s]))]
  /\ UNCHANGED <<users, nextUid, tokens, posts, nextPid, nextCid, notifs>>

\* ---- POST /upload-avatar ---------------------------------------------------
\* url is what the image host returns as secure_url (never empty)
AvatarBegin(s, tok, url) ==
  /\ Free(s)
  /\ tok \in tokens
  /\ rq' = [rq EXCEPT ![s] = AuthMiddleware(tok, "setPicture", [url |-> url], "av_upload")]
  /\ UNCHANGED db

\* cloudinary.uploader.upload: no effect on the database
AvatarUpload(s) ==
  /\ rq[s].pc = "av_upload"
  /\ rq' = [rq EXCEPT ![s].pc = "av_user"]
  /\ UNCHANGED db

\* User.findByIdAndUpdate(req.user.id, { profilePicture: url })
SetUserPicture(us, userId, url) ==
  [u \in DOMAIN us |->
     IF u = userId THEN [us[u] EXCEPT !.profilePicture = url] ELSE us[u]]

AvatarUser(s) ==
  /\ rq[s].pc = "av_user"
  /\ users' = SetUserPicture(users, rq[s].uid, rq[s].arg.url)
  /\ rq' = [rq EXCEPT ![s].pc = "av_posts"]
  /\ UNCHANGED <<nextUid, tokens, posts, nextPid, comments, nextCid, notifs>>

\* Model.updateMany({ author: req.user.id }, { profilePicture: url })
SetPicture(docs, userId, url) ==
  [d \in DOMAIN docs |->
     IF docs[d].author = userId THEN [docs[d] EXCEPT !.profilePicture = url]
     ELSE docs[d]]

AvatarPosts(s) ==
  /\ rq[s].pc = "av_posts"
  /\ posts' = SetPicture(posts, rq[s].uid, rq[s].arg.url)
  /\ rq' = [rq EXCEPT ![s].pc = "av_comments"]
  /\ UNCHANGED <<users, nextUid, tokens, nextPid, comments, nextCid, notifs>>

AvatarComments(s) ==
  /\ rq[s].pc = "av_comments"
  /\ comments' = SetPicture(comments, rq[s].uid, rq[s].arg.url)
  /\ rq' = [rq EXCEPT ![s].pc = "av_notifs"]
  /\ UNCHANGED <<users, nextUid, tokens, posts, nextPid, nextCid, notifs>>

\* Notification.updateMany({ 'sender._id': id }, { 'sender.profilePicture': url }):
\* the filter is the clause that selects no document, and the schema has no
\* path sender.profilePicture to set.
SetSenderPicture(ns, userId, url) ==
  [i \in 1..Len(ns) |->
     IF SenderIdClause(ns[i], userId) THEN [ns[i] EXCEPT !.sender = @] ELSE ns[i]]

AvatarNotifs(s) ==
  /\ rq[s].pc = "av_notifs"
  /\ notifs' = SetSenderPicture(notifs, rq[s].uid, rq[s].arg.url)
  /\ rq' = [rq EXCEPT ![s] = Finish(rq[s], 200, [imageUrl |-> rq[s].arg.url])]
  /\ UNCHANGED <<users, nextUid, tokens, posts, nextPid, comments, nextCid>>


\* ---- PUT /notifications/read ---------------------------------------------
MarkReadBegin(s, tok) ==
  /\ Free(s)
  /\ tok \in tokens
  /\ rq' = [rq EXCEPT ![s] = AuthMiddleware(tok, "markNotificationsRead", NoVal, "mr_update")]
  /\ UNCHANGED db

\* (mutant: the filter has no recipient)
MarkRead_Everyones(ns, userId) ==
  [i \in 1..Len(ns) |-> [ns[i] EXCEPT !.read = TRUE]]

\* Notification.updateMany({ recipient: req.user.id, read: false }, { read: true })
MarkRead(ns, userId) ==
  [i \in 1..Len(ns) |->
     IF ns[i].recipient = userId /\ ~ns[i].read
     THEN [ns[i] EXCEPT !.read = TRUE]
     ELSE ns[i]]

MarkReadUpdate(s) ==
  /\ rq[s].pc = "mr_update"
  /\ notifs' = MarkRead(notifs, rq[s].uid)
  /\ rq' = [rq EXCEPT ![s] = Finish(rq[s], 200, NoVal)]
  /\ UNCHANGED <<users, nextUid, tokens, posts, nextPid, comments, nextCid>>

\* GET /notifications: countDocuments({ recipient: req.user.id, read: false })
UnreadCount(ns, userId) ==
  Cardinality({i \in 1..Len(ns) : ns[i].recipient = userId /\ ~ns[i].read})

\* ---- DELETE /posts/:postId/comments/:commentId ---------------------------
DeleteCommentBegin(s, tok, pid, cid) ==
  /\ Free(s)
  /\ tok \in tokens
  /\ rq' = [rq EXCEPT ![s] =
              AuthMiddleware(tok, "deleteComment", [post |-> pid, comment |-> cid], "dc_find")]
  /\ UNCHANGED db

\* Comment.findById(req.params.commentId)
DeleteCommentFind(s) ==
  /\ rq[s].pc = "dc_find"
  /\ LET r == rq[s]
     IN rq' = [rq EXCEPT ![s] =
          IF r.arg.comment \notin DOMAIN comments THEN Finish(r, 404, NoVal)
          ELSE Goto(r, "dc_authorize", [author |-> comments[r.arg.comment].author])]
  /\ UNCHANGED db

\* Post.findById(req.params.postId): the post the request names.  A missing
\* post is null and reading post.author throws (500).
DeleteCommentAuthorize(s) ==
  /\ rq[s].pc = "dc_authorize"
  /\ LET r == rq[s]
     IN rq' = [rq EXCEPT ![s] =
          IF r.arg.post \notin DOMAIN posts THEN Finish(r, 500, NoVal)
          ELSE LET isCommentOwner == r.loc.author = r.uid
                   isPostOwner == posts[r.arg.post].author = r.uid
               IN IF ~isCommentOwner /\ ~isPostOwner
                  THEN Finish(r, 403, NoVal)
                  ELSE Goto(r, "dc_delete", NoVal)]
  /\ UNCHANGED db

\* comment.deleteOne()
DeleteCommentRemove(s) ==
  /\ rq[s].pc = "dc_delete"
  /\ comments' = Remove(comments, {rq[s].arg.comment})
  /\ rq' = [rq EXCEPT ![s] = Finish(rq[s], 200, NoVal)]
  /\ UNCHANGED <<users, nextUid, tokens, posts, nextPid, nextCid, notifs>>

\* ---- GET /google/callback (passport GoogleStrategy verify callback) --------
\* profile.photos[0].value.replace('s96-c', 's400-c'): pictures are strings
\* here, and the one photo with the size marker has a large version
HighQuality(photo) == IF photo = "photo-s96-c" THEN "photo-s400-c" ELSE photo

\* the user the verify callback creates: the password is not a hash, so no
\* password ever verifies against it
NewGoogleUser(profile) ==
  [email |-> profile.email, password |-> "google",
   firstName |-> profile.givenName, lastName |-> profile.familyName,
   profilePicture |-> HighQuality(profile.photo), about |-> "hi",
   subscribers |-> <<>>]

UserByEmail(e) == CHOOSE u \in DOMAIN users : users[u].email = e

\* jwt.sign for req.user and the redirect that carries the token
GoogleRedirect(r, u) == Finish([r EXCEPT !.uid = u], 302, NoVal)

\* User.findOne({ email }); an existing user whose picture is the profile's
\* photo needs no write
GoogleFind(s, profile) ==
  /\ Free(s)
  /\ ~EmailExists(profile.email) => nextUid <= MaxUsers
  /\ LET r == [Idle EXCEPT !.op = "googleLogin", !.arg = profile]
     IN IF ~EmailExists(profile.email)
        THEN /\ rq' = [rq EXCEPT ![s] = Goto(r, "gl_create", NoVal)]
             /\ UNCHANGED tokens
        ELSE LET u == UserByEmail(profile.email)
             IN IF profile.photo # "" /\ profile.photo # users[u].profilePicture
                THEN /\ rq' = [rq EXCEPT ![s] = Goto([r EXCEPT !.uid = u], "gl_picture", NoVal)]
                     /\ UNCHANGED tokens
                ELSE /\ rq' = [rq EXCEPT ![s] = GoogleRedirect(r, u)]
                     /\ tokens' = tokens \cup {u}
  /\ UNCHANGED <<users, nextUid, posts, nextPid, comments, nextCid, notifs>>

\* user.profilePicture = profile.photos[0].value
GooglePicture(user, profile) == [user EXCEPT !.profilePicture = profile.photo]

\* user.save(), done(null, user); a user deleted in the meantime makes
\* save() throw and done(err) ends the request with 500
GoogleSavePicture(s) ==
  /\ rq[s].pc = "gl_picture"
  /\ LET r == rq[s]
     IN IF r.uid \notin DOMAIN users
        THEN /\ rq' = [rq EXCEPT ![s] = Finish(r, 500, NoVal)]
             /\ UNCHANGED <<users, tokens>>
        ELSE /\ users' = [users EXCEPT ![r.uid] = GooglePicture(users[r.uid], r.arg)]
             /\ rq' = [rq EXCEPT ![s] = GoogleRedirect(r, r.uid)]
             /\ tokens' = tokens \cup {r.uid}
  /\ UNCHANGED <<nextUid, posts, nextPid, comments, nextCid, notifs>>

\* new User({...}).save(): the unique index on email rejects a duplicate
GoogleCreate(s) ==
  /\ rq[s].pc = "gl_create"
  /\ IF EmailExists(rq[s].arg.email)
     THEN /\ rq' = [rq EXCEPT ![s] = Finish(rq[s], 500, NoVal)]
          /\ UNCHANGED <<users, nextUid, tokens>>
     ELSE /\ users' = (nextUid :> NewGoogleUser(rq[s].arg)) @@ users
          /\ nextUid' = nextUid + 1
          /\ tokens' = tokens \cup {nextUid}
          /\ rq' = [rq EXCEPT ![s] = GoogleRedirect(rq[s], nextUid)]
  /\ UNCHANGED <<posts, nextPid, comments, nextCid, notifs>>

\* ---- DELETE /posts/:id ---------------------------------------------------
DeletePostBegin(s, tok, pid) ==
  /\ Free(s)
  /\ tok \in tokens
  /\ rq' = [rq EXCEPT ![s] = AuthMiddleware(tok, "deletePost", [post |-> pid], "dp_find")]
  /\ UNCHANGED db

\* (mutant: the author is not compared with the caller)
DeletePostFind_NoOwnerCheck(s) ==
  /\ rq[s].pc = "dp_find"
  /\ LET r == rq[s]
     IN rq' = [rq EXCEPT ![s] =
          IF r.arg.post \notin DOMAIN posts THEN Finish(r, 404, NoVal)
          ELSE Goto(r, "dp_comments", NoVal)]
  /\ UNCHANGED db

\* Post.findById: 404 for a missing post, 403 for a post of another author
DeletePostFind(s) ==
  /\ rq[s].pc = "dp_find"
  /\ LET r == rq[s]
     IN rq' = [rq EXCEPT ![s] =
          IF r.arg.post \notin DOMAIN posts THEN Finish(r, 404, NoVal)
          ELSE IF posts[r.arg.post].author # r.uid THEN Finish(r, 403, NoVal)
          ELSE Goto(r, "dp_comments", NoVal)]
  /\ UNCHANGED db

\* Comment.deleteMany({ post: post._id })
DeletePostCascade(s) ==
  /\ rq[s].pc = "dp_comments"
  /\ comments' = CommentsNotOnPost(comments, rq[s].arg.post)
  /\ rq' = [rq EXCEPT ![s].pc = "dp_delete"]
  /\ UNCHANGED <<users, nextUid, tokens, posts, nextPid, nextCid, notifs>>

\* post.deleteOne(): deleting a document that is already gone is no error
DeletePostRemove(s) ==
  /\ rq[s].pc = "dp_delete"
  /\ posts' = Remove(posts, {rq[s].arg.post})
  /\ rq' = [rq EXCEPT ![s] = Finish(rq[s], 200, NoVal)]
  /\ UNCHANGED <<users, nextUid, tokens, nextPid, comments, nextCid, notifs>>

\* ---- a store call throws ----------------------------------------------------
\* Where control goes is decided by the try/catch around the call:
\*  - upload-avatar: the inner try around the four writes; its catch falls
\*    through to res.json({ imageUrl })
\*  - subscribe: the inner try around notification.save(); then save()
\*  - create post: the inner try around the subscriber fan-out; then 201
\*  - register: no try/catch at all, no response
\*  - everything else: the handler's outer catch, 500
\* (mutant: deleteAccount wraps the $pull in a try of its own and goes on)
OnError_PullSwallowed(r) ==
  CASE r.pc \in {"av_user", "av_posts", "av_comments", "av_notifs"} ->
         Finish(r, 200, [imageUrl |-> r.arg.url, failedAt |-> r.pc])
    [] r.pc = "sub_notif" -> [r EXCEPT !.pc = "sub_save"]
    [] r.pc \in {"cp_findUser", "cp_insert"} ->
         Finish(r, 201, [post |-> r.loc.post, failedAt |-> r.pc])
    [] r.pc = "reg_save" -> Finish(r, 0, [failedAt |-> r.pc])
    [] r.pc = "del_subs" -> [r EXCEPT !.pc = "del_user"]
    [] OTHER -> Finish(r, 500, [failedAt |-> r.pc])

OnError(r) ==
  CASE r.pc \in {"av_user", "av_posts", "av_comments", "av_notifs"} ->
         Finish(r, 200, [imageUrl |-> r.arg.url, failedAt |-> r.pc])
    [] r.pc = "sub_notif" -> [r EXCEPT !.pc = "sub_save"]
    [] r.pc \in {"cp_findUser", "cp_insert"} ->
         Finish(r, 201, [post |-> r.loc.post, failedAt |-> r.pc])
    [] r.pc = "reg_save" -> Finish(r, 0, [failedAt |-> r.pc])
    [] OTHER -> Finish(r, 500, [failedAt |-> r.pc])

StoreFails(s) ==
  /\ rq[s].pc \notin {"idle", "done"}
  /\ rq' = [rq EXCEPT ![s] = OnError(rq[s])]
  /\ UNCHANGED db

\* ---- specifications ---------------------------------------------------------
\* Requests are served one at a time (slot 1); every awaited call is a step.
Accounts(s) ==
  \/ \E b \in RegBodies : RegisterFind(s, b)
  \/ RegisterSave(s)
  \/ \E e \in Emails, pw \in Passwords : Login(s, e, pw)

Posting(s) ==
  \/ \E tok \in UserIds : CreatePostBegin(s, tok)
  \/ CreatePostSave(s)
  \/ CreatePostFindUser(s)
  \/ CreatePostInsert(s)

Liking(s) ==
  \/ \E tok \in UserIds, pid \in PostIds : LikeBegin(s, tok, pid)
  \/ LikeFind(s)
  \/ LikeNotif(s)
  \/ LikeSave(s)

Commenting(s) ==
  \/ \E tok \in UserIds, pid \in PostIds : CommentBegin(s, tok, pid)
  \/ CommentFind(s)
  \/ CommentSave(s)
  \/ CommentNotif(s)

Subscribing(s) ==
  \/ \E tok \in UserIds, target \in UserIds : SubscribeBegin(s, tok, target)
  \/ SubscribeFind(s)
  \/ SubscribeNotif(s)
  \/ SubscribeSave(s)

Deleting(s) ==
  \/ \E tok \in UserIds : DeleteBegin(s, tok)
  \/ DeleteFindPosts(s)
  \/ DeletePostComments(s)
  \/ DeletePosts(s)
  \/ DeleteComments(s)
  \/ DeleteNotifs(s)
  \/ DeleteSubs(s)
  \/ DeleteUser(s)

\* the cascade: accounts, content, likes, subscriptions and account deletion
Next ==
  \E s \in SeqSlots :
    \/ Accounts(s)
    \/ Posting(s)
    \/ Liking(s)
    \/ Commenting(s)
    \/ Subscribing(s)
    \/ Deleting(s)
    \/ StoreFails(s)

Spec == Init /\ [][Next]_vars

\* profile edits and their propagation to posts, comments and notifications
\* (the name the account registered with, a changed first name, a changed
\* last name; with or without a picture in the body)
ProfileNames == {<<"Ann", "Lee">>, <<"Bob", "Lee">>, <<"Ann", "Kim">>}

UpdateBodies ==
  {[firstName |-> n[1], lastName |-> n[2], currentPassword |-> "", newPassword |-> "",
    profilePicture |-> p, about |-> ""] :
     n \in ProfileNames, p \in {"", "pic1"}}

AvatarUrls == {"pic1"}

\* the account whose profile is edited: the first one registered
ProfileEditors == {1}

Updating(s) ==
  \/ \E tok \in ProfileEditors, body \in UpdateBodies : UpdateBegin(s, tok, body)
  \/ UpdateFind(s)
  \/ UpdateSave(s)
  \/ UpdatePosts(s)
  \/ UpdateComments(s)

Avatar(s) ==
  \/ \E tok \in ProfileEditors, url \in AvatarUrls : AvatarBegin(s, tok, url)
  \/ AvatarUpload(s)
  \/ AvatarUser(s)
  \/ AvatarPosts(s)
  \/ AvatarComments(s)
  \/ AvatarNotifs(s)

\* (nobody subscribes here, so a new post has no subscriber to notify)
NextProfile ==
  \E s \in SeqSlots :
    \/ Accounts(s)
    \/ \E tok \in UserIds : CreatePostBegin(s, tok)
    \/ CreatePostSave(s)
    \/ CreatePostFindUser(s)
    \/ Commenting(s)
    \/ Updating(s)
    \/ Avatar(s)
    \/ StoreFails(s)

SpecProfile == Init /\ [][NextProfile]_vars

\* subscriptions and the notifications a new post sends to subscribers, with
\* three accounts: the first one registered is the one the others subscribe
\* to, and the one that posts
WideRegBodies ==
  RegBodies \cup
  {[email |-> "e3", password |-> "pw1", firstName |-> "Cyd", lastName |-> "Kim"]}

FanoutAuthors == {1}

AccountsWide(s) ==
  \/ \E b \in WideRegBodies : RegisterFindUpTo(s, b, MaxUsersWide)
  \/ RegisterSave(s)
  \/ \E b \in WideRegBodies : Login(s, b.email, b.password)

SubscribingWide(s) ==
  \/ \E tok \in WideUserIds, target \in FanoutAuthors : SubscribeBegin(s, tok, target)
  \/ SubscribeFind(s)
  \/ SubscribeNotif(s)
  \/ SubscribeSave(s)

PostingFanout(s) ==
  \/ \E tok \in FanoutAuthors : CreatePostBegin(s, tok)
  \/ CreatePostSave(s)
  \/ CreatePostFindUser(s)
  \/ CreatePostInsert(s)

NextFanout ==
  \E s \in SeqSlots :
    \/ AccountsWide(s)
    \/ SubscribingWide(s)
    \/ PostingFanout(s)
    \/ StoreFails(s)

SpecFanout == Init /\ [][NextFanout]_vars

\* profile edits that may change the password: the body names the current
\* password (right or wrong) and a new one, or changes the name only
PasswordBodies ==
  {[firstName |-> n, lastName |-> "Lee", currentPassword |-> cur, newPassword |-> new,
    profilePicture |-> "", about |-> a] :
     n \in {"Ann", "Bob"}, cur \in Passwords, new \in {"", "pw2"}, a \in {"", "bio"}}

UpdatingPassword(s) ==
  \/ \E tok \in ProfileEditors, body \in PasswordBodies : UpdateBegin(s, tok, body)
  \/ UpdateFind(s)
  \/ UpdateSave(s)
  \/ UpdatePosts(s)
  \/ UpdateComments(s)

NextPassword ==
  \E s \in SeqSlots :
    \/ Accounts(s)
    \/ \E tok \in UserIds : CreatePostBegin(s, tok)
    \/ CreatePostSave(s)
    \/ CreatePostFindUser(s)
    \/ Commenting(s)
    \/ UpdatingPassword(s)

SpecPassword == Init /\ [][NextPassword]_vars

\* posts, comments and the deletion of a post, with two posts
PostingTwo(s) ==
  \/ \E tok \in UserIds : CreatePostBeginUpTo(s, tok, MaxPostsWide)
  \/ CreatePostSave(s)
  \/ CreatePostFindUser(s)

CommentingTwo(s) ==
  \/ \E tok \in UserIds, pid \in WidePostIds : CommentBegin(s, tok, pid)
  \/ CommentFind(s)
  \/ CommentSave(s)
  \/ CommentNotif(s)

DeletingPost(s) ==
  \/ \E tok \in UserIds, pid \in WidePostIds : DeletePostBegin(s, tok, pid)
  \/ DeletePostFind(s)
  \/ DeletePostCascade(s)
  \/ DeletePostRemove(s)

NextDeletePost ==
  \E s \in SeqSlots :
    \/ Accounts(s)
    \/ PostingTwo(s)
    \/ CommentingTwo(s)
    \/ DeletingPost(s)
    \/ StoreFails(s)

SpecDeletePost == Init /\ [][NextDeletePost]_vars

\* profile edits that change the name only, posts and comments of the same
\* account, with two requests in flight
NameBodies ==
  {[firstName |-> n[1], lastName |-> n[2], currentPassword |-> "", newPassword |-> "",
    profilePicture |-> "", about |-> ""] :
     n \in {<<"Ann", "Lee">>, <<"Bob", "Lee">>}}

UpdatingName(s) ==
  \/ \E tok \in ProfileEditors, body \in NameBodies : UpdateBegin(s, tok, body)
  \/ UpdateFind(s)
  \/ UpdateSave(s)
  \/ UpdatePosts(s)
  \/ UpdateComments(s)

\* (a comment on one's own post sends no notification)
NextConcurrentProfile ==
  \E s \in Slots :
    \/ Accounts(s)
    \/ \E tok \in ProfileEditors : CreatePostBegin(s, tok)
    \/ CreatePostSave(s)
    \/ CreatePostFindUser(s)
    \/ \E tok \in ProfileEditors, pid \in PostIds : CommentBegin(s, tok, pid)
    \/ CommentFind(s)
    \/ CommentSave(s)
    \/ UpdatingName(s)

SpecConcurrentProfile == Init /\ [][NextConcurrentProfile]_vars

\* posts and likes, store failures included
NextLikes ==
  \E s \in SeqSlots :
    \/ Accounts(s)
    \/ \E tok \in UserIds : CreatePostBegin(s, tok)
    \/ CreatePostSave(s)
    \/ CreatePostFindUser(s)
    \/ Liking(s)
    \/ StoreFails(s)

SpecLikes == Init /\ [][NextLikes]_vars

\* posts, comments and changes of name one after the other, store failures
\* included
NextComments ==
  \E s \in SeqSlots :
    \/ Accounts(s)
    \/ \E tok \in UserIds : CreatePostBegin(s, tok)
    \/ CreatePostSave(s)
    \/ CreatePostFindUser(s)
    \/ Commenting(s)
    \/ UpdatingName(s)
    \/ StoreFails(s)

SpecComments == Init /\ [][NextComments]_vars

\* a post and likes of it, with two requests in flight: the requests in
\* slot s are those of one client, logged in as user s, so that two likes in
\* flight together are likes of two different users
NextConcurrentLikes ==
  \E s \in Slots :
    \/ Accounts(s)
    \/ CreatePostBegin(s, s)
    \/ CreatePostSave(s)
    \/ CreatePostFindUser(s)
    \/ \E pid \in PostIds : LikeBegin(s, s, pid)
    \/ LikeFind(s)
    \/ LikeNotif(s)
    \/ LikeSave(s)

SpecConcurrentLikes == Init /\ [][NextConcurrentLikes]_vars

\* subscriptions to the first account, with two requests in flight (of one
\* user or of two); a request that arrived as an unsubscription may find the
\* caller unsubscribed by then, so the notifications are capped where they
\* are written
SubscribeNotifCapped(s) ==
  /\ Len(notifs) < MaxNotifs
  /\ SubscribeNotif(s)

NextConcurrentSubscribe ==
  \E s \in Slots :
    \/ Accounts(s)
    \/ \E tok \in UserIds, target \in FanoutAuthors : SubscribeBegin(s, tok, target)
    \/ SubscribeFind(s)
    \/ SubscribeNotifCapped(s)
    \/ SubscribeSave(s)

SpecConcurrentSubscribe == Init /\ [][NextConcurrentSubscribe]_vars

\* a post, comments on it and its deletion, with two requests in flight
NextConcurrentComments ==
  \E s \in Slots :
    \/ Accounts(s)
    \/ \E tok \in UserIds : CreatePostBegin(s, tok)
    \/ CreatePostSave(s)
    \/ CreatePostFindUser(s)
    \/ Commenting(s)
    \/ \E tok \in UserIds, pid \in PostIds : DeletePostBegin(s, tok, pid)
    \/ DeletePostFind(s)
    \/ DeletePostCascade(s)
    \/ DeletePostRemove(s)

SpecConcurrentComments == Init /\ [][NextConcurrentComments]_vars

\* subscriptions of two users to each other, the notifications they send,
\* and marking them read; store failures included
MarkingRead(s) ==
  \/ \E tok \in UserIds : MarkReadBegin(s, tok)
  \/ MarkReadUpdate(s)

NextRead ==
  \E s \in SeqSlots :
    \/ Accounts(s)
    \/ Subscribing(s)
    \/ MarkingRead(s)
    \/ StoreFails(s)

SpecRead == Init /\ [][NextRead]_vars

\* accounts made by registration or by a Google login, later Google logins
\* with or without a photo, posts and comments
GoogleProfiles ==
  {[email |-> e, givenName |-> "Ann", familyName |-> "Lee", photo |-> ph] :
     e \in {"e1"}, ph \in {"", "photo-s96-c"}}

GoogleLogin(s) ==
  \/ \E profile \in GoogleProfiles : GoogleFind(s, profile)
  \/ GoogleSavePicture(s)
  \/ GoogleCreate(s)

NextGoogle ==
  \E s \in SeqSlots :
    \/ Accounts(s)
    \/ GoogleLogin(s)
    \/ \E tok \in UserIds : CreatePostBegin(s, tok)
    \/ CreatePostSave(s)
    \/ CreatePostFindUser(s)
    \/ Commenting(s)

SpecGoogle == Init /\ [][NextGoogle]_vars

\* two posts, comments on them and the deletion of a comment
CommentIds == 1..MaxComments

DeletingComment(s) ==
  \/ \E tok \in UserIds, pid \in WidePostIds, cid \in CommentIds :
       DeleteCommentBegin(s, tok, pid, cid)
  \/ DeleteCommentFind(s)
  \/ DeleteCommentAuthorize(s)
  \/ DeleteCommentRemove(s)

NextDeleteComment ==
  \E s \in SeqSlots :
    \/ Accounts(s)
    \/ PostingTwo(s)
    \/ CommentingTwo(s)
    \/ DeletingComment(s)

SpecDeleteComment == Init /\ [][NextDeleteComment]_vars

\* posts and comments, and the deletion of accounts, with two requests in
\* flight
NextConcurrentDelete ==
  \E s \in Slots :
    \/ Accounts(s)
    \/ \E tok \in UserIds : CreatePostBegin(s, tok)
    \/ CreatePostSave(s)
    \/ CreatePostFindUser(s)
    \/ Commenting(s)
    \/ Deleting(s)

SpecConcurrentDelete == Init /\ [][NextConcurrentDelete]_vars

\* registration and login with two requests in flight
NextRegister == \E s \in Slots : Accounts(s)

SpecRegister == Init /\ [][NextRegister]_vars

\* ---- properties --------------------------------------------------------------
Completed(s, op, st) ==
  /\ rq[s].pc = "done"
  /\ rq[s].op = op
  /\ rq[s].status = st

OthersQuiet(s) == \A t \in Slots \ {s} : Free(t)

\* the request in slot s ended because the store call at step pc threw
FailedAt(s, pc) ==
  /\ rq[s].pc = "done"
  /\ "failedAt" \in DOMAIN rq[s].loc
  /\ rq[s].loc.failedAt = pc

NoFailure(s) == "failedAt" \notin DOMAIN rq[s].loc

\* a stored document carries this name and picture as its own fields
Carries(d, firstName, lastName, picture) ==
  /\ {"firstName", "lastName", "profilePicture"} \subseteq DOMAIN d
  /\ d.firstName = firstName
  /\ d.lastName = lastName
  /\ d.profilePicture = picture

CarriesPicture(d, picture) ==
  /\ "profilePicture" \in DOMAIN d
  /\ d.profilePicture = picture

SentBy(u) == {i \in 1..Len(notifs) : notifs[i].sender = u}

\* C1: after deleteAccount(U) answers 200, no notification has U as sender
\* or as recipient.
C1_NoNotificationOfDeletedUser ==
  \A s \in Slots :
    Completed(s, "deleteAccount", 200) =>
      \A i \in 1..Len(notifs) :
        notifs[i].sender # rq[s].uid /\ notifs[i].recipient # rq[s].uid

\* C2: after deleteAccount(U) answers 200, no remaining post has U among
\* its liking users.
C2_NoLikeOfDeletedUser ==
  \A s \in Slots :
    Completed(s, "deleteAccount", 200) =>
      \A p \in DOMAIN posts : rq[s].uid \notin Range(posts[p].likes)

\* C3: after an updateProfile that changed the first or last name answers
\* 200, every post and comment of the user and every notification the user
\* sent carries the user's stored name and picture.
C3_NameChangeReachesAllSnapshots ==
  \A s \in Slots :
    (Completed(s, "updateProfile", 200) /\ rq[s].loc.isNameChanged) =>
      LET u == rq[s].uid
          me == users[u]
      IN /\ \A p \in DOMAIN posts : posts[p].author = u =>
              Carries(posts[p], me.firstName, me.lastName, me.profilePicture)
         /\ \A c \in DOMAIN comments : comments[c].author = u =>
              Carries(comments[c], me.firstName, me.lastName, me.profilePicture)
         /\ \A i \in SentBy(u) :
              Carries(notifs[i], me.firstName, me.lastName, me.profilePicture)

\* C4: after an updateProfile that changed only the picture answers 200,
\* every post and comment of the user carries the new picture.
C4_PictureOnlyChangePropagates ==
  \A s \in Slots :
    (/\ Completed(s, "updateProfile", 200)
     /\ ~rq[s].loc.isNameChanged
     /\ rq[s].arg.profilePicture # ""
     /\ rq[s].arg.profilePicture # rq[s].loc.oldPicture) =>
      LET u == rq[s].uid
      IN /\ \A p \in DOMAIN posts : posts[p].author = u =>
              CarriesPicture(posts[p], rq[s].arg.profilePicture)
         /\ \A c \in DOMAIN comments : comments[c].author = u =>
              CarriesPicture(comments[c], rq[s].arg.profilePicture)

\* C5: after setPicture(U, ref) answers 200 (no store call having failed),
\* U's user record, U's posts, U's comments and the notifications U sent all
\* have picture ref.
C5_AvatarReachesAllSnapshots ==
  \A s \in Slots :
    (Completed(s, "setPicture", 200) /\ NoFailure(s)) =>
      LET u == rq[s].uid
          ref == rq[s].arg.url
      IN /\ users[u].profilePicture = ref
         /\ \A p \in DOMAIN posts : posts[p].author = u => CarriesPicture(posts[p], ref)
         /\ \A c \in DOMAIN comments : comments[c].author = u =>
              CarriesPicture(comments[c], ref)
         /\ \A i \in SentBy(u) : CarriesPicture(notifs[i], ref)

C7_PropagationFailureNotSurfaced ==
  \A s \in Slots :
    (rq[s].op = "updateProfile" /\
       (FailedAt(s, "upd_posts") \/ FailedAt(s, "upd_comments"))) =>
      /\ rq[s].status = 200
      /\ users[rq[s].uid].firstName = rq[s].arg.firstName
      /\ users[rq[s].uid].lastName = rq[s].arg.lastName

\* C8: when creating the like/comment notification fails, the request still
\* succeeds and the like (the comment) is stored.
C8_NotificationFailureNotSurfaced ==
  \A s \in Slots :
    /\ (rq[s].op = "toggleLike" /\ FailedAt(s, "like_notif")) =>
         /\ rq[s].status = 200
         /\ rq[s].arg.post \in DOMAIN posts =>
              rq[s].uid \in Range(posts[rq[s].arg.post].likes)
    /\ (rq[s].op = "addComment" /\ FailedAt(s, "cm_notif")) =>
         rq[s].status = 201

\* C9: after deleteAccount(U) answers 200 with no other request in flight,
\* there is no post by U, no comment by U, and no comment on one of the
\* posts of U that were deleted.
C9_NoContentOfDeletedUser ==
  \A s \in Slots :
    (Completed(s, "deleteAccount", 200) /\ OthersQuiet(s)) =>
      /\ \A p \in DOMAIN posts : posts[p].author # rq[s].uid
      /\ \A c \in DOMAIN comments :
           /\ comments[c].author # rq[s].uid
           /\ comments[c].post \notin Range(rq[s].loc.userPosts)

\* U had a post, a comment had been written, the other account is still there
C9_Witness ==
  \E s \in Slots :
    /\ Completed(s, "deleteAccount", 200)
    /\ rq[s].loc.userPosts # <<>>
    /\ nextCid > 1
    /\ DOMAIN users # {}

\* C10: after deleteAccount(U) answers 200, U is in no remaining user's
\* subscriber list and U's user record does not exist.
C10_UserGoneFromSubscribers ==
  \A s \in Slots :
    (Completed(s, "deleteAccount", 200) /\ OthersQuiet(s)) =>
      /\ rq[s].uid \notin DOMAIN users
      /\ \A v \in DOMAIN users : rq[s].uid \notin Range(users[v].subscribers)

\* U was in the subscriber list of a user that remains
C10_Witness ==
  \E s \in Slots :
    /\ Completed(s, "deleteAccount", 200)
    /\ rq[s].loc.pulled # {}
    /\ rq[s].loc.pulled \subseteq DOMAIN users


\* ---- subscriptions -------------------------------------------------------
\* a step of the handler of operation op in slot s (not the arrival of the
\* request)
HandlerStep(s, op) ==
  /\ rq[s].op = op
  /\ rq[s].pc \notin {"idle", "done"}
  /\ rq'[s] # rq[s]

\* what one more successful toggleSubscription call by user a stores, given
\* the subscribers array it loads
ToggleOnce(subs, a) ==
  SaveArray(subs, SubscribeToggle([Idle EXCEPT !.uid = a], [subscribers |-> subs]).loc)

\* C11: when a toggleSubscription call of A on T succeeds, the membership and
\* the count in its response are the ones now stored, and one more successful
\* call puts T's subscriber set and count back to what they were before it.
C11_StrictToggle ==
  [][\A s \in Slots :
       (SubscribeSave(s) /\ rq'[s].status = 200) =>
         LET T == rq[s].arg.target
             A == rq[s].uid
             before == users[T].subscribers
             stored == users'[T].subscribers
             again == ToggleOnce(stored, A)
         IN /\ rq'[s].loc.isSubscribed = (A \in Range(stored))
            /\ rq'[s].loc.subscriberCount = Len(stored)
            /\ (A \in Range(stored)) # (A \in Range(before))
            /\ Range(again) = Range(before)
            /\ Len(again) = Len(before)]_vars

\* A unsubscribed from an account that keeps another subscriber: the second
\* of two successful calls has answered
C11_Witness ==
  \E s \in Slots :
    /\ Completed(s, "toggleSubscription", 200)
    /\ ~rq[s].loc.isSubscribed
    /\ rq[s].loc.subscriberCount = 1

\* C12: a toggleSubscription call of a user on their own account changes
\* nothing in the store (no subscribers array, no notification) and ends at
\* its first step, with 400 unless the store call itself threw.
C12_SelfSubscriptionRejected ==
  [][\A s \in Slots :
       (HandlerStep(s, "toggleSubscription") /\ rq[s].uid = rq[s].arg.target) =>
         /\ UNCHANGED db
         /\ rq'[s].pc = "done"
         /\ NoFailure(s)' => rq'[s].status = 400]_vars

\* a user with a subscriber of their own has tried to subscribe to themselves
C12_Witness ==
  \E s \in Slots :
    /\ Completed(s, "toggleSubscription", 400)
    /\ rq[s].uid = rq[s].arg.target
    /\ users[rq[s].uid].subscribers # <<>>

\* C13: a toggleSubscription call of A on T that has created its subscribe
\* notification ends with A newly stored among T's subscribers: a call that
\* fails, or whose write of the subscribers array is not stored, has created
\* no notification.
C13_NotificationOnlyIfSubscribed ==
  [][\A s \in Slots :
       (/\ rq[s].op = "toggleSubscription"
        /\ rq[s].pc = "sub_save"
        /\ rq[s].loc.notified
        /\ rq'[s].pc = "done") =>
         LET T == rq[s].arg.target
             A == rq[s].uid
         IN /\ rq'[s].status = 200
            /\ T \in DOMAIN users'
            /\ A \notin Range(users[T].subscribers)
            /\ A \in Range(users'[T].subscribers)]_vars

\* ---- notifications of posts, likes and comments ------------------------------
\* the post_created notifications that refer to post p
AboutNewPost(p) ==
  {i \in 1..Len(notifs) : notifs[i].type = "post_created" /\ notifs[i].post = p}

\* C14: when createPost has answered and no store call of it threw, the
\* post_created notifications that refer to the new post are as many as the
\* author's subscribers, exactly one of them is addressed to each subscriber,
\* all are sent by the author and none is addressed to the author.
C14_OneNotificationPerSubscriber ==
  \A s \in Slots :
    (Completed(s, "createPost", 201) /\ NoFailure(s)) =>
      LET A == rq[s].uid
          p == rq[s].loc.post
          S == users[A].subscribers
      IN /\ Cardinality(AboutNewPost(p)) = Len(S)
         /\ \A m \in Range(S) :
              Cardinality({i \in AboutNewPost(p) : notifs[i].recipient = m}) = 1
         /\ \A i \in AboutNewPost(p) :
              notifs[i].sender = A /\ notifs[i].recipient # A

\* an author with two subscribers has posted
C14_Witness ==
  \E s \in Slots :
    /\ Completed(s, "createPost", 201)
    /\ NoFailure(s)
    /\ Len(users[rq[s].uid].subscribers) = 2
    /\ Cardinality(AboutNewPost(rq[s].loc.post)) = 2

\* C15: a toggleLike call changes the notifications at one step only, the one
\* it enters exactly when the caller is not the post's author and has not
\* liked the post yet; that step is taken at most once and appends exactly one
\* like notification addressed to the author. A call by the author, a call
\* that removes a like, and a step at which the store call throws, leave
\* every notification as it was.
C15_LikeNotification ==
  [][\A s \in Slots :
       HandlerStep(s, "toggleLike") =>
         LET A == rq[s].uid
             pid == rq[s].arg.post
         IN CASE ~NoFailure(s)' ->
                   /\ rq'[s].pc = "done"
                   /\ notifs' = notifs
              [] NoFailure(s)' /\ rq[s].pc = "like_find" ->
                   /\ notifs' = notifs
                   /\ (rq'[s].pc = "like_notif") <=>
                        (/\ pid \in DOMAIN posts
                         /\ posts[pid].author # A
                         /\ A \notin Range(posts[pid].likes))
              [] NoFailure(s)' /\ rq[s].pc = "like_notif" ->
                   /\ rq'[s].pc = "like_save"
                   /\ notifs' = Append(notifs,
                         [recipient |-> posts[pid].author, sender |-> A,
                          post |-> pid, type |-> "like", read |-> FALSE])
              [] OTHER ->
                   /\ rq'[s].pc = "done"
                   /\ notifs' = notifs]_vars

\* a user who is not the author has taken their like back, and the
\* notification of the like is still there
C15_Witness ==
  \E s \in Slots :
    /\ Completed(s, "toggleLike", 200)
    /\ ~rq[s].loc.isLiked
    /\ rq[s].arg.post \in DOMAIN posts
    /\ posts[rq[s].arg.post].author # rq[s].uid
    /\ \E i \in 1..Len(notifs) :
         /\ notifs[i].type = "like"
         /\ notifs[i].sender = rq[s].uid
         /\ notifs[i].recipient = posts[rq[s].arg.post].author

\* C16: addComment on a post that does not exist answers 404 and stores
\* nothing. On an existing post it stores exactly one comment, which carries
\* the post, the caller and the caller's name and picture as now stored, and
\* then, unless the caller is the post's author, appends exactly one comment
\* notification addressed to the author; no other step of the call changes
\* the comments or the notifications.
C16_CommentAndNotification ==
  [][\A s \in Slots :
       HandlerStep(s, "addComment") =>
         LET A == rq[s].uid
             pid == rq[s].arg.post
         IN CASE ~NoFailure(s)' ->
                   /\ rq'[s].pc = "done"
                   /\ UNCHANGED <<comments, notifs>>
              [] NoFailure(s)' /\ rq[s].pc = "cm_find" ->
                   /\ UNCHANGED db
                   /\ IF pid \in DOMAIN posts
                      THEN rq'[s].pc = "cm_save"
                      ELSE rq'[s].pc = "done" /\ rq'[s].status = 404
              [] NoFailure(s)' /\ rq[s].pc = "cm_save" ->
                   /\ notifs' = notifs
                   /\ \E c \in DOMAIN comments' \ DOMAIN comments :
                        /\ DOMAIN comments' = DOMAIN comments \cup {c}
                        /\ \A d \in DOMAIN comments : comments'[d] = comments[d]
                        /\ comments'[c] =
                             [post |-> pid, author |-> A,
                              firstName |-> users[A].firstName,
                              lastName |-> users[A].lastName,
                              profilePicture |-> users[A].profilePicture]
                   /\ IF posts[pid].author = A
                      THEN rq'[s].pc = "done" /\ rq'[s].status = 201
                      ELSE rq'[s].pc = "cm_notif"
              [] OTHER ->
                   /\ comments' = comments
                   /\ notifs' = Append(notifs,
                         [recipient |-> posts[pid].author, sender |-> A,
                          post |-> pid, type |-> "comment", read |-> FALSE])
                   /\ rq'[s].pc = "done" /\ rq'[s].status = 201]_vars

\* a user who has changed their name has commented on another user's post
C16_Witness ==
  \E s \in Slots :
    /\ Completed(s, "addComment", 201)
    /\ NoFailure(s)
    /\ posts[rq[s].arg.post].author # rq[s].uid
    /\ comments[rq[s].loc.comment].firstName = "Bob"
    /\ users[rq[s].uid].email = "e1"
    /\ notifs # <<>>
    /\ notifs[Len(notifs)].type = "comment"

\* ---- accounts ------------------------------------------------------------
UniqueEmails ==
  \A u, v \in DOMAIN users : users[u].email = users[v].email => u = v

\* C17: a register call that finds its email stored answers 400 ("Email
\* exists") and leaves the store as it was; and after every step, with two
\* register calls for one email in flight too, no two stored users have the
\* same email.
C17_EmailStaysUnique ==
  [][/\ \A s \in Slots, b \in RegBodies :
          (RegisterFind(s, b) /\ EmailExists(b.email)) =>
            /\ rq'[s].pc = "done"
            /\ rq'[s].status = 400
            /\ UNCHANGED db
     /\ UniqueEmails']_vars

\* two register calls for one email were in flight together: the index
\* rejected the second save; a later call for that email was answered 400
C17_Witness ==
  /\ Completed(1, "register", 400)
  /\ Completed(2, "register", 0)
  /\ rq[1].arg.email = rq[2].arg.email
  /\ EmailExists(rq[1].arg.email)

\* C18: an updateProfile call that asks for a new password and names a
\* current password that is not the stored one answers 400 ("Current password
\* is incorrect") at the step that loads the user, and nothing stored changes:
\* the user's name, picture, bio and password, and every post and comment.
C18_WrongPasswordChangesNothing ==
  [][\A s \in Slots :
       (/\ HandlerStep(s, "updateProfile")
        /\ rq[s].pc = "upd_find"
        /\ rq[s].uid \in DOMAIN users
        /\ rq[s].arg.newPassword # ""
        /\ rq[s].arg.currentPassword # users[rq[s].uid].password) =>
         /\ rq'[s].pc = "done"
         /\ rq'[s].status = 400
         /\ UNCHANGED db]_vars

\* the author of a post was refused a change of name, bio and password
C18_Witness ==
  \E s \in Slots :
    /\ Completed(s, "updateProfile", 400)
    /\ rq[s].arg.firstName # users[rq[s].uid].firstName
    /\ rq[s].arg.about # users[rq[s].uid].about
    /\ rq[s].arg.newPassword # users[rq[s].uid].password
    /\ \E p \in DOMAIN posts : posts[p].author = rq[s].uid

\* ---- deletion of a post --------------------------------------------------
\* C19: a deletePost call goes past its first step only when the caller is
\* the post's author; for another user it answers 403 and changes nothing.
\* The author's call then removes the comments whose post is that post and no
\* other comment, and then that post and no other post; a step at which the
\* store call throws changes nothing.
C19_AuthorDeletesPostAndItsComments ==
  [][\A s \in Slots :
       HandlerStep(s, "deletePost") =>
         LET A == rq[s].uid
             pid == rq[s].arg.post
         IN CASE ~NoFailure(s)' ->
                   /\ rq'[s].pc = "done" /\ rq'[s].status = 500
                   /\ UNCHANGED db
              [] NoFailure(s)' /\ rq[s].pc = "dp_find" ->
                   /\ UNCHANGED db
                   /\ IF pid \notin DOMAIN posts
                      THEN rq'[s].pc = "done" /\ rq'[s].status = 404
                      ELSE IF posts[pid].author # A
                      THEN rq'[s].pc = "done" /\ rq'[s].status = 403
                      ELSE rq'[s].pc = "dp_comments"
              [] NoFailure(s)' /\ rq[s].pc = "dp_comments" ->
                   /\ posts' = posts
                   /\ DOMAIN comments' = {c \in DOMAIN comments : comments[c].post # pid}
                   /\ \A c \in DOMAIN comments' : comments'[c] = comments[c]
                   /\ rq'[s].pc = "dp_delete"
              [] OTHER ->
                   /\ comments' = comments
                   /\ DOMAIN posts' = DOMAIN posts \ {pid}
                   /\ \A p \in DOMAIN posts' : posts'[p] = posts[p]
                   /\ rq'[s].pc = "done" /\ rq'[s].status = 200]_vars

\* an author has deleted a post that had a comment; the other post and the
\* comment on it are still there
C19_Witness ==
  \E s \in Slots :
    /\ Completed(s, "deletePost", 200)
    /\ nextCid = 3
    /\ \E c \in DOMAIN comments :
         /\ DOMAIN comments = {c}
         /\ comments[c].post \in DOMAIN posts
         /\ comments[c].post # rq[s].arg.post

\* ---- profile edits in flight together ------------------------------------
\* C20: whenever no request is in flight, every post and every comment of a
\* stored user carries the name and the picture the user's record has.
C20_SnapshotsAgreeWhenQuiet ==
  (\A s \in Slots : Free(s)) =>
    \A u \in DOMAIN users :
      /\ \A p \in DOMAIN posts :
           posts[p].author = u =>
             Carries(posts[p], users[u].firstName, users[u].lastName,
                     users[u].profilePicture)
      /\ \A c \in DOMAIN comments :
           comments[c].author = u =>
             Carries(comments[c], users[u].firstName, users[u].lastName,
                     users[u].profilePicture)

\* ---- likes in flight together ----------------------------------------------
\* C21: a toggleLike call on a stored post ends, at its save, with the
\* caller's membership among the likes as its own toggle decided it, and with
\* every other user's membership as it was before the save.
C21_EveryToggleTakesEffect ==
  [][\A s \in Slots :
       (/\ rq[s].op = "toggleLike"
        /\ rq[s].pc = "like_save"
        /\ rq'[s].pc = "done"
        /\ rq[s].arg.post \in DOMAIN posts) =>
         LET A == rq[s].uid
             pid == rq[s].arg.post
         IN /\ pid \in DOMAIN posts'
            /\ (A \in Range(posts'[pid].likes)) = rq[s].loc.isLiked
            /\ \A u \in UserIds \ {A} :
                 (u \in Range(posts'[pid].likes)) = (u \in Range(posts[pid].likes))]_vars

\* ---- subscriptions in flight together ----------------------------------------
\* C22: no stored user's subscribers array holds the same user twice, and
\* none holds the user itself.
C22_SubscribersAreASet ==
  \A u \in DOMAIN users :
    /\ Cardinality(Range(users[u].subscribers)) = Len(users[u].subscribers)
    /\ u \notin Range(users[u].subscribers)

\* ---- comments and deletions in flight together -------------------------------
\* C23: whenever no request is in flight, the post of every stored comment is
\* a stored post.
C23_NoOrphanCommentWhenQuiet ==
  (\A s \in Slots : Free(s)) =>
    \A c \in DOMAIN comments : comments[c].post \in DOMAIN posts

\* ---- the order of the steps of deleteAccount -----------------------------------
\* C24: a user's record leaves the store only at the last step of that
\* user's deleteAccount call, when the earlier steps have left no post and no
\* comment of the user, no notification addressed to the user and no
\* subscribers array holding the user; and a post leaves the store only when
\* no stored comment refers to it.
C24_UserRemovedLast ==
  [][/\ \A u \in DOMAIN users \ DOMAIN users' :
          /\ \E s \in Slots :
               /\ rq[s].op = "deleteAccount"
               /\ rq[s].uid = u
               /\ rq[s].pc = "del_user"
          /\ \A p \in DOMAIN posts : posts[p].author # u
          /\ \A c \in DOMAIN comments : comments[c].author # u
          /\ \A i \in 1..Len(notifs) : notifs[i].recipient # u
          /\ \A v \in DOMAIN users : u \notin Range(users[v].subscribers)
     /\ \A p \in DOMAIN posts \ DOMAIN posts' :
          \A c \in DOMAIN comments : comments[c].post # p]_vars

\* the account deleted had a post and a subscription, a comment had been
\* written, and the call has removed the user's record last
C24_Witness ==
  \E s \in Slots :
    /\ Completed(s, "deleteAccount", 200)
    /\ rq[s].loc.userPosts # <<>>
    /\ rq[s].loc.pulled # {}
    /\ nextCid > 1
    /\ comments = <<>>
    /\ notifs = <<>>
    /\ rq[s].uid \notin DOMAIN users

\* ---- marking notifications read ------------------------------------------------
\* C25: the step of markNotificationsRead of user U leaves as many
\* notifications as there were, each with its recipient, sender, post and
\* type; those addressed to U are read afterwards, the others keep their read
\* flag; U's unread count is then 0 and nothing else in the store changes. A
\* step at which the store call throws changes nothing.
C25_OnlyReadFlagOfOwnNotifications ==
  [][\A s \in Slots :
       HandlerStep(s, "markNotificationsRead") =>
         LET U == rq[s].uid
         IN IF NoFailure(s)'
            THEN /\ rq'[s].pc = "done" /\ rq'[s].status = 200
                 /\ Len(notifs') = Len(notifs)
                 /\ \A i \in 1..Len(notifs) :
                      /\ notifs'[i].recipient = notifs[i].recipient
                      /\ notifs'[i].sender = notifs[i].sender
                      /\ notifs'[i].post = notifs[i].post
                      /\ notifs'[i].type = notifs[i].type
                      /\ notifs'[i].read =
                           IF notifs[i].recipient = U THEN TRUE ELSE notifs[i].read
                 /\ UnreadCount(notifs', U) = 0
                 /\ UNCHANGED <<users, tokens, posts, comments>>
            ELSE /\ rq'[s].pc = "done" /\ rq'[s].status = 500
                 /\ UNCHANGED db]_vars

\* a user has marked their notification read while another user's is unread
C25_Witness ==
  \E s \in Slots :
    /\ Completed(s, "markNotificationsRead", 200)
    /\ \E i, j \in 1..Len(notifs) :
         /\ notifs[i].recipient = rq[s].uid
         /\ notifs[i].read
         /\ notifs[j].recipient # rq[s].uid
         /\ ~notifs[j].read

\* ---- Google login ----------------------------------------------------------
\* C26: when a Google login has answered, every post and every comment of
\* the user it logged in carries the picture the user's record has.
C26_LoginKeepsPicturesEqual ==
  \A s \in Slots :
    (Completed(s, "googleLogin", 302) /\ rq[s].uid \in DOMAIN users) =>
      LET u == rq[s].uid
      IN /\ \A p \in DOMAIN posts :
              posts[p].author = u => CarriesPicture(posts[p], users[u].profilePicture)
         /\ \A c \in DOMAIN comments :
              comments[c].author = u =>
                CarriesPicture(comments[c], users[u].profilePicture)

\* ---- deletion of a comment -----------------------------------------------------
\* C27: a comment leaves the store at a step of a deleteComment call only
\* when the caller is the comment's author or the author of the post the
\* comment is on.
C27_OnlyOwnersDeleteComment ==
  [][\A s \in Slots :
       HandlerStep(s, "deleteComment") =>
         \A c \in DOMAIN comments \ DOMAIN comments' :
           \/ comments[c].author = rq[s].uid
           \/ /\ comments[c].post \in DOMAIN posts
              /\ posts[comments[c].post].author = rq[s].uid]_vars

\* ---- requests of a deleted account -----------------------------------------------
\* C28: a post, a comment or a notification that enters the store is one of
\* a user whose record is stored: nothing is created in the name of a user
\* after deleteAccount has removed the user's record.
C28_NothingCreatedForDeletedUser ==
  [][/\ \A p \in DOMAIN posts' \ DOMAIN posts : posts'[p].author \in DOMAIN users
     /\ \A c \in DOMAIN comments' \ DOMAIN comments : comments'[c].author \in DOMAIN users
     /\ Len(notifs') > Len(notifs) =>
          \A i \in (Len(notifs) + 1)..Len(notifs') : notifs'[i].sender \in DOMAIN users]_vars

====
